---- MODULE Spec2Model ----
(***************************************************************************)
(* Sound-change rule engine of languagebuilder (phonology/phonology.py).   *)
(*                                                                         *)
(* The Phonology object owns a rule store (Rules) and reads a feature      *)
(* registry (Phonetics).  add_rule / remove_rule edit the store and        *)
(* apply_rules scans a sequence of phonetic symbols with a RuleTracker     *)
(* and then commits the completed tracks onto a copy of the input.         *)
(*                                                                         *)
(* phonetics.py, rules.py and ruletracker.py are not part of the sources   *)
(* at hand: their operations are modelled from their documented contract   *)
(* and from the way phonology.py calls them.                               *)
(***************************************************************************)
EXTENDS Integers, Sequences, FiniteSets, TLC

VARIABLES
    rules,              \* Rules: the stored rules, in insertion order
    next_id,            \* number of rule ids minted so far
    pc,                 \* "idle" | "returned" | "raised"
    op,                 \* the operation that ran last: "none", "add_rule", ...
    args,               \* its arguments
    ret,                \* its return value
    ipa_string,         \* apply_rules: the caller's sequence
    rule_tracker,       \* apply_rules: the tracks still live when the scan ends
    successful_tracks,  \* apply_rules: the completed tracks, in order found
    new_ipa_sequence,   \* apply_rules: the copy the changes are written to
    syllables,          \* Syllables: the stored syllable structures, as added
    exponent_order      \* Morphosyntax: exponent id -> its inner and outer ids

vars == <<rules, next_id, pc, op, args, ret, ipa_string, rule_tracker,
          successful_tracks, new_ipa_sequence, syllables, exponent_order>>

----------------------------------------------------------------------------
(* Bounds of the model *)

\* longest sequence handed to apply_rules
MaxLen == 4
\* number of add_rule calls that mint an id
MaxRules == 2
\* longest sequence handed to apply_rules when one rule is stored
MaxLenSingle == 5
\* longest sequence handed to apply_rules in calls that follow one another
MaxLenAgain == 4
\* longest sequence handed to apply_rules when two rules are stored
MaxLenPair == 4
\* longest sequence handed to apply_rules under the two lenition rules
MaxLenLenition == 4

\* longest sample handed to syllabify
MaxLenSyllables == 4
\* number of syllable structures added
MaxSyllables == 2
\* longest list of exponent ids handed to arrange_exponents
MaxArranged == 4

----------------------------------------------------------------------------
(* Phonetics: the feature registry *)

\* The registered sounds in registration order: the test fixture's seven
\* sounds, then o, u, t and j as example.py registers them.
Phonetics ==
    << [ipa |-> "a",     features |-> {"vowel", "front", "open", "unrounded"}],
       [ipa |-> "k",     features |-> {"consonant", "voiceless", "velar", "stop"}],
       [ipa |-> "g",     features |-> {"consonant", "voiced", "velar", "stop"}],
       [ipa |-> "kh",    features |-> {"consonant", "voiceless", "aspirated", "velar", "stop"}],
       [ipa |-> "gh",    features |-> {"consonant", "voiced", "aspirated", "velar", "stop"}],
       [ipa |-> "x",     features |-> {"consonant", "voiceless", "velar", "fricative"}],
       [ipa |-> "gamma", features |-> {"consonant", "voiced", "velar", "fricative"}],
       [ipa |-> "o",     features |-> {"vowel", "raised", "mid", "rounded"}],
       [ipa |-> "u",     features |-> {"vowel", "raised", "rounded"}],
       [ipa |-> "t",     features |-> {"consonant", "voiceless", "dental", "alveolar", "stop"}],
       [ipa |-> "j",     features |-> {"consonant", "voiced", "palatal", "approximant"}] >>

\* Phonetics.has_ipa
has_ipa(ipa) == \E i \in 1..Len(Phonetics) : Phonetics[i].ipa = ipa

\* Phonetics.has_feature
has_feature(feature) ==
    \E i \in 1..Len(Phonetics) : feature \in Phonetics[i].features

\* Phonetics.get_features of a registered symbol (an unknown one fails)
get_features(ipa) ==
    Phonetics[CHOOSE i \in 1..Len(Phonetics) : Phonetics[i].ipa = ipa].features

\* Phonetics.get_ipa: every registered symbol whose features include all of
\* `features`, in registration order
get_ipa(features) ==
    LET matching(sound) == features \subseteq sound.features
        found == SelectSeq(Phonetics, matching)
    IN  [i \in 1..Len(found) |-> found[i].ipa]

\* Phonetics.parse_features: the list as a feature set when every entry is
\* a registered feature; nothing (the empty set) otherwise
parse_features(features) ==
    IF /\ Len(features) > 0
       /\ \A i \in 1..Len(features) : has_feature(features[i])
    THEN {features[i] : i \in 1..Len(features)}
    ELSE {}

----------------------------------------------------------------------------
(* Values *)

None == [kind |-> "None"]
RuleId(id) == [kind |-> "rule_id", id |-> id]
RuleValue(rule) == [kind |-> "rule", rule |-> rule]
Boolean(value) == [kind |-> "bool", value |-> value]
SyllableId(id) == [kind |-> "syllable_id", id |-> id]
Symbol(ipa) == [kind |-> "symbol", ipa |-> ipa]
Relatives(entry) == [kind |-> "relatives", inner |-> entry.inner, outer |-> entry.outer]
Sequence(list) == [kind |-> "list", list |-> list]
NoArgs == [kind |-> "none"]

\* what list[0] of an empty list ends in
IndexError == "IndexError"

----------------------------------------------------------------------------
(* Rules: the rule store *)

\* the abbreviations an environment string may use
syllable_characters ==
    [c \in {"_", "#", "C", "V"} |->
        CASE c = "_" -> "_"
          [] c = "#" -> "#"
          [] c = "C" -> "consonant"
          [] c = "V" -> "vowel"]

\* the focus marker as an environment slot
FocusSlot == {"_"}

\* one environment item as a slot: an abbreviation, or a registered feature;
\* the empty set when it is neither
structure_item(item) ==
    IF item \in DOMAIN syllable_characters THEN {syllable_characters[item]}
    ELSE IF has_feature(item) THEN {item}
    ELSE {}

\* number of focus markers among the slots
focus_count(environment) ==
    Cardinality({i \in 1..Len(environment) : environment[i] = FocusSlot})

\* structure as it would be if one focus marker at least were enough
structure_some_focus(environment_structure) ==
    LET slots == [i \in 1..Len(environment_structure) |->
                    structure_item(environment_structure[i])]
    IN  IF /\ \A i \in 1..Len(slots) : slots[i] # {}
           /\ focus_count(slots) >= 1
        THEN slots
        ELSE << >>

\* the environment as a list of slots; the empty list when an item is
\* unknown or the focus marker does not occur exactly once
structure(environment_structure) ==
    LET slots == [i \in 1..Len(environment_structure) |->
                    structure_item(environment_structure[i])]
    IN  IF /\ \A i \in 1..Len(slots) : slots[i] # {}
           /\ focus_count(slots) = 1
        THEN slots
        ELSE << >>

\* Rules.add as it would be if the id were the number of stored rules plus
\* one, so that the id of a removed rule could be minted again
Rules_add_reused(store, minted, source, target, environment_structure) ==
    LET environment == structure(environment_structure)
    IN  IF source = {} \/ target = {} \/ environment = << >>
        THEN [rules |-> store, next_id |-> minted, id |-> 0]
        ELSE [rules |-> Append(store, [id          |-> Len(store) + 1,
                                       source      |-> source,
                                       target      |-> target,
                                       environment |-> environment]),
              next_id |-> Len(store) + 1,
              id |-> Len(store) + 1]

\* Rules.add: the store and the counter after the call, and the minted id
\* (0 when the rule is refused)
Rules_add(store, minted, source, target, environment_structure) ==
    LET environment == structure(environment_structure)
    IN  IF source = {} \/ target = {} \/ environment = << >>
        THEN [rules |-> store, next_id |-> minted, id |-> 0]
        ELSE [rules |-> Append(store, [id          |-> minted + 1,
                                       source      |-> source,
                                       target      |-> target,
                                       environment |-> environment]),
              next_id |-> minted + 1,
              id |-> minted + 1]

\* Rules.has
Rules_has(store, rule_id) == \E i \in 1..Len(store) : store[i].id = rule_id

\* Rules.get(rule_id) of a stored rule
Rules_get(store, rule_id) ==
    store[CHOOSE i \in 1..Len(store) : store[i].id = rule_id]

\* Rules.remove: the store without the rule
Rules_remove(store, rule_id) ==
    LET other(rule) == rule.id # rule_id
    IN  SelectSeq(store, other)

----------------------------------------------------------------------------
(* RuleTracker: the tracks of one apply_rules call *)

\* a new tracker: no track, no track id handed out
RuleTracker == [tracks |-> << >>, tracked |-> 0]

\* RuleTracker.is_features_submatch: every one of `features` is in `sample`
is_features_submatch(features, sample) == features \subseteq sample

\* RuleTracker.is_source_slot_match: the slot is the focus marker and the
\* sound has the rule's source features
is_source_slot_match(sound_features, environment_slot_features, rule_source) ==
    /\ environment_slot_features = FocusSlot
    /\ is_features_submatch(rule_source, sound_features)

\* RuleTracker.is_environment_slot_match: the sound has the slot's features
is_environment_slot_match(sound_features, environment_slot_features) ==
    is_features_submatch(environment_slot_features, sound_features)

\* track as it would be if a track whose first slot is a context slot were
\* started with that slot already counted
track_counted(tracker, rule_id, environment, sound_features) ==
    IF \/ environment[1] = FocusSlot
       \/ is_environment_slot_match(sound_features, environment[1])
    THEN [tracks  |-> Append(tracker.tracks,
                             [id     |-> tracker.tracked + 1,
                              rule   |-> rule_id,
                              count  |-> IF environment[1] = FocusSlot THEN 0 ELSE 1,
                              length |-> Len(environment),
                              source |-> "",
                              index  |-> -1]),
          tracked |-> tracker.tracked + 1]
    ELSE tracker

\* RuleTracker.track: start a track, at count 0, when the first slot is the
\* focus marker or the sound has its features; the slot is tested again,
\* and counted, by the tracks loop of the same pass
track(tracker, rule_id, environment, sound_features) ==
    IF \/ environment[1] = FocusSlot
       \/ is_environment_slot_match(sound_features, environment[1])
    THEN [tracks  |-> Append(tracker.tracks,
                             [id     |-> tracker.tracked + 1,
                              rule   |-> rule_id,
                              count  |-> 0,
                              length |-> Len(environment),
                              source |-> "",
                              index  |-> -1]),
          tracked |-> tracker.tracked + 1]
    ELSE tracker

\* RuleTracker.set_source_match: record the sound to change and count the slot
set_source_match(a_track, source, index) ==
    [a_track EXCEPT !.source = source, !.index = index, !.count = @ + 1]

\* RuleTracker.count_features_match: count the slot
count_features_match(a_track) == [a_track EXCEPT !.count = @ + 1]

\* RuleTracker.untrack, for every id of tracks_to_pop
untrack(tracker, tracks_to_pop) ==
    LET kept(a_track) == a_track.id \notin tracks_to_pop
    IN  [tracker EXCEPT !.tracks = SelectSeq(@, kept)]

----------------------------------------------------------------------------
(* Phonology.change_symbol *)

\* new_symbol_features as it would be if the symbol's own features were
\* not merged in
new_symbol_features_target_only(source_features, target_features, ipa_symbol) ==
    target_features

\* new_symbol_features as it would be if no feature of the symbol were
\* taken away
new_symbol_features_kept(source_features, target_features, ipa_symbol) ==
    target_features \cup get_features(ipa_symbol)

\* the features of the changed sound: the target's, and every feature of
\* the symbol that the rule does not take away
new_symbol_features(source_features, target_features, ipa_symbol) ==
    target_features \cup
        {feature \in get_features(ipa_symbol) :
            ~(feature \in source_features /\ feature \notin target_features)}

\* the sounds the tests add to the inventory of the language
inventory == {"a", "k"}

\* Phonetics.get_ipa with filter_phonemes: the matching symbols that are in
\* filter_phonemes, in registration order
get_ipa_filtered(features, filter_phonemes) ==
    LET listed(ipa) == ipa \in filter_phonemes
    IN  SelectSeq(get_ipa(features), listed)

\* change_symbol as it would be if the new symbol were looked for in the
\* inventory of the language only
change_symbol_inventory(source_features, target_features, ipa_symbol) ==
    LET new_symbols ==
            get_ipa_filtered(
                new_symbol_features(source_features, target_features, ipa_symbol),
                inventory)
    IN  IF Len(new_symbols) = 0 THEN IndexError ELSE new_symbols[1]

\* change_symbol as it would be if it took the last registered symbol with
\* these features
change_symbol_last(source_features, target_features, ipa_symbol) ==
    LET new_symbols ==
            get_ipa(new_symbol_features(source_features, target_features, ipa_symbol))
    IN  IF Len(new_symbols) = 0 THEN IndexError ELSE new_symbols[Len(new_symbols)]

\* the first registered symbol with these features; new_symbols[0] of an
\* empty list raises
change_symbol(source_features, target_features, ipa_symbol) ==
    LET new_symbols ==
            get_ipa(new_symbol_features(source_features, target_features, ipa_symbol))
    IN  IF Len(new_symbols) = 0 THEN IndexError ELSE new_symbols[1]

----------------------------------------------------------------------------
(* Phonology.apply_rules: the scan *)

\* rules_loop as it would be if a rule with a live track started no other
RECURSIVE rules_loop_untracked(_, _, _, _)
rules_loop_untracked(store, k, tracker, sound_features) ==
    IF k > Len(store) THEN tracker
    ELSE rules_loop_untracked(store, k + 1,
            IF \E i \in 1..Len(tracker.tracks) : tracker.tracks[i].rule = store[k].id
            THEN tracker
            ELSE track(tracker, store[k].id, store[k].environment, sound_features),
            sound_features)

\* rules_loop as it would be if every stored rule were handed to the tracker
\* twice at each position
RECURSIVE rules_loop_twice(_, _, _, _)
rules_loop_twice(store, k, tracker, sound_features) ==
    IF k > Len(store) THEN tracker
    ELSE rules_loop_twice(store, k + 1,
                    track(track(tracker, store[k].id, store[k].environment,
                                sound_features),
                          store[k].id, store[k].environment, sound_features),
                    sound_features)

\* (1) the rules loop of one position: every stored rule may start a track
RECURSIVE rules_loop(_, _, _, _)
rules_loop(store, k, tracker, sound_features) ==
    IF k > Len(store) THEN tracker
    ELSE rules_loop(store, k + 1,
                    track(tracker, store[k].id, store[k].environment, sound_features),
                    sound_features)

\* track_step as it would be if a track were full one slot early
track_step_early(store, a_track, symbol, sound_features, word_index) ==
    IF ~Rules_has(store, a_track.rule)
    THEN [track |-> a_track, pop |-> FALSE, full |-> FALSE]
    ELSE
    LET rule == Rules_get(store, a_track.rule)
        environment_slot_features == rule.environment[a_track.count + 1]
        source_match ==
            is_source_slot_match(sound_features, environment_slot_features, rule.source)
        slot_match ==
            is_environment_slot_match(sound_features, environment_slot_features)
        did_keep_tracking == source_match \/ slot_match
        updated == IF source_match THEN set_source_match(a_track, symbol, word_index)
                   ELSE IF slot_match THEN count_features_match(a_track)
                   ELSE a_track
        full == did_keep_tracking /\ updated.count >= updated.length - 1
    IN  [track |-> updated, pop |-> (~did_keep_tracking) \/ full, full |-> full]

\* track_step as it would be if the focus were tested against the rule's
\* target features
track_step_target(store, a_track, symbol, sound_features, word_index) ==
    IF ~Rules_has(store, a_track.rule)
    THEN [track |-> a_track, pop |-> FALSE, full |-> FALSE]
    ELSE
    LET rule == Rules_get(store, a_track.rule)
        environment_slot_features == rule.environment[a_track.count + 1]
        source_match ==
            is_source_slot_match(sound_features, environment_slot_features, rule.target)
        slot_match ==
            is_environment_slot_match(sound_features, environment_slot_features)
        did_keep_tracking == source_match \/ slot_match
        updated == IF source_match THEN set_source_match(a_track, symbol, word_index)
                   ELSE IF slot_match THEN count_features_match(a_track)
                   ELSE a_track
        full == did_keep_tracking /\ updated.count >= updated.length
    IN  [track |-> updated, pop |-> (~did_keep_tracking) \/ full, full |-> full]

\* track_step as it would be if a track that fails its slot stayed alive
track_step_kept(store, a_track, symbol, sound_features, word_index) ==
    IF ~Rules_has(store, a_track.rule)
    THEN [track |-> a_track, pop |-> FALSE, full |-> FALSE]
    ELSE
    LET rule == Rules_get(store, a_track.rule)
        environment_slot_features == rule.environment[a_track.count + 1]
        source_match ==
            is_source_slot_match(sound_features, environment_slot_features, rule.source)
        slot_match ==
            is_environment_slot_match(sound_features, environment_slot_features)
        did_keep_tracking == source_match \/ slot_match
        updated == IF source_match THEN set_source_match(a_track, symbol, word_index)
                   ELSE IF slot_match THEN count_features_match(a_track)
                   ELSE a_track
        full == did_keep_tracking /\ updated.count >= updated.length
    IN  [track |-> updated, pop |-> full, full |-> full]

\* track_step as it would be if the focus marker took any sound as the
\* source sound, whatever its features
track_step_any_source(store, a_track, symbol, sound_features, word_index) ==
    IF ~Rules_has(store, a_track.rule)
    THEN [track |-> a_track, pop |-> FALSE, full |-> FALSE]
    ELSE
    LET rule == Rules_get(store, a_track.rule)
        environment_slot_features == rule.environment[a_track.count + 1]
        source_match == environment_slot_features = FocusSlot
        slot_match ==
            is_environment_slot_match(sound_features, environment_slot_features)
        did_keep_tracking == source_match \/ slot_match
        updated == IF source_match THEN set_source_match(a_track, symbol, word_index)
                   ELSE IF slot_match THEN count_features_match(a_track)
                   ELSE a_track
        full == did_keep_tracking /\ updated.count >= updated.length
    IN  [track |-> updated, pop |-> (~did_keep_tracking) \/ full, full |-> full]

\* track_step as it would be if a track that fails its slot were reset to
\* its first slot and kept, instead of being untracked
track_step_reset(store, a_track, symbol, sound_features, word_index) ==
    IF ~Rules_has(store, a_track.rule)
    THEN [track |-> a_track, pop |-> FALSE, full |-> FALSE]
    ELSE
    LET rule == Rules_get(store, a_track.rule)
        environment_slot_features == rule.environment[a_track.count + 1]
        source_match ==
            is_source_slot_match(sound_features, environment_slot_features, rule.source)
        slot_match ==
            is_environment_slot_match(sound_features, environment_slot_features)
        did_keep_tracking == source_match \/ slot_match
        updated == IF source_match THEN set_source_match(a_track, symbol, word_index)
                   ELSE IF slot_match THEN count_features_match(a_track)
                   ELSE [a_track EXCEPT !.count = 0, !.source = "", !.index = -1]
        full == did_keep_tracking /\ updated.count >= updated.length
    IN  [track |-> updated, pop |-> full, full |-> full]

\* (2) one track of the tracks loop against the sound at word_index: the
\* track as the loop leaves it, whether it goes to tracks_to_pop and whether
\* it goes to successful_tracks
track_step(store, a_track, symbol, sound_features, word_index) ==
    IF ~Rules_has(store, a_track.rule)
    THEN [track |-> a_track, pop |-> FALSE, full |-> FALSE]
    ELSE
    LET rule == Rules_get(store, a_track.rule)
        environment_slot_features == rule.environment[a_track.count + 1]
        source_match ==
            is_source_slot_match(sound_features, environment_slot_features, rule.source)
        slot_match ==
            is_environment_slot_match(sound_features, environment_slot_features)
        did_keep_tracking == source_match \/ slot_match
        updated == IF source_match THEN set_source_match(a_track, symbol, word_index)
                   ELSE IF slot_match THEN count_features_match(a_track)
                   ELSE a_track
        full == did_keep_tracking /\ updated.count >= updated.length
    IN  [track |-> updated, pop |-> (~did_keep_tracking) \/ full, full |-> full]

\* scan_position as it would be if the tracks completed at a position were
\* put before those completed earlier
scan_position_prepended(store, state, symbol, word_index) ==
    LET sound_features == get_features(symbol)
        started == rules_loop(store, 1, state.rule_tracker, sound_features)
        steps == [i \in 1..Len(started.tracks) |->
                    track_step(store, started.tracks[i], symbol, sound_features, word_index)]
        is_full(step) == step.full
        full_steps == SelectSeq(steps, is_full)
        tracks_to_pop == {steps[i].track.id : i \in {j \in 1..Len(steps) : steps[j].pop}}
        updated == [started EXCEPT !.tracks = [i \in 1..Len(steps) |-> steps[i].track]]
    IN  [rule_tracker      |-> untrack(updated, tracks_to_pop),
         successful_tracks |-> [i \in 1..Len(full_steps) |-> full_steps[i].track]
                                  \o state.successful_tracks]

\* scan_position as it would be if only the completed tracks were
\* untracked, and the tracks that fail their slot were left in the tracker
scan_position_unfailed(store, state, symbol, word_index) ==
    LET sound_features == get_features(symbol)
        started == rules_loop(store, 1, state.rule_tracker, sound_features)
        steps == [i \in 1..Len(started.tracks) |->
                    track_step(store, started.tracks[i], symbol, sound_features, word_index)]
        is_full(step) == step.full
        full_steps == SelectSeq(steps, is_full)
        tracks_to_pop == {steps[i].track.id : i \in {j \in 1..Len(steps) : steps[j].full}}
        updated == [started EXCEPT !.tracks = [i \in 1..Len(steps) |-> steps[i].track]]
    IN  [rule_tracker      |-> untrack(updated, tracks_to_pop),
         successful_tracks |-> state.successful_tracks \o
                                  [i \in 1..Len(full_steps) |-> full_steps[i].track]]

\* one position of the scan: the rules loop, the tracks loop, the untracking
scan_position(store, state, symbol, word_index) ==
    LET sound_features == get_features(symbol)
        started == rules_loop(store, 1, state.rule_tracker, sound_features)
        steps == [i \in 1..Len(started.tracks) |->
                    track_step(store, started.tracks[i], symbol, sound_features, word_index)]
        is_full(step) == step.full
        full_steps == SelectSeq(steps, is_full)
        tracks_to_pop == {steps[i].track.id : i \in {j \in 1..Len(steps) : steps[j].pop}}
        updated == [started EXCEPT !.tracks = [i \in 1..Len(steps) |-> steps[i].track]]
    IN  [rule_tracker      |-> untrack(updated, tracks_to_pop),
         successful_tracks |-> state.successful_tracks \o
                                  [i \in 1..Len(full_steps) |-> full_steps[i].track]]

\* rule_tracker = RuleTracker() as it would be if the tracker of the call
\* before were taken up again
new_tracker_kept(previous) == previous

\* rule_tracker = RuleTracker(): a new tracker, whatever tracker the call
\* before ended with
new_tracker(previous) == RuleTracker

\* the scan after its first n positions (word_index 0 .. n-1), in a call
\* that follows one that ended with the tracker `previous`
RECURSIVE scan_after(_, _, _, _)
scan_after(store, word, n, previous) ==
    IF n = 0
    THEN [rule_tracker |-> new_tracker(previous), successful_tracks |-> << >>]
    ELSE scan_position(store, scan_after(store, word, n - 1, previous), word[n], n - 1)

\* the scan after its first n positions, in the first call
scan(store, word, n) == scan_after(store, word, n, RuleTracker)

\* the scan after each of its first n positions, in the first call: entry
\* m + 1 is the scan after m positions
RECURSIVE scan_states(_, _, _)
scan_states(store, word, n) ==
    IF n = 0 THEN <<scan(store, word, 0)>>
    ELSE LET before == scan_states(store, word, n - 1)
         IN  Append(before, scan_position(store, before[n], word[n], n - 1))

----------------------------------------------------------------------------
(* Phonology.apply_rules: the changes *)

\* change_loop as it would be if each track changed the sound it matched in
\* the input instead of the sound now at its index
RECURSIVE change_loop_original(_, _, _, _)
change_loop_original(store, tracks, k, sequence) ==
    IF k > Len(tracks) THEN [sequence |-> sequence, raised |-> FALSE]
    ELSE
    LET successful_track == tracks[k]
        index_to_change == successful_track.index
        ipa_to_change == successful_track.source
        applied_rule == Rules_get(store, successful_track.rule)
        features_to_change == get_features(ipa_to_change)
    IN  IF index_to_change + 1 > Len(sequence)
        THEN [sequence |-> sequence, raised |-> TRUE]
        ELSE
        IF ~is_features_submatch(applied_rule.source, features_to_change)
        THEN change_loop_original(store, tracks, k + 1, sequence)
        ELSE
        LET changed_ipa ==
                change_symbol(applied_rule.source, applied_rule.target, ipa_to_change)
        IN  IF changed_ipa = IndexError
            THEN [sequence |-> sequence, raised |-> TRUE]
            ELSE change_loop_original(store, tracks, k + 1,
                             [sequence EXCEPT ![index_to_change + 1] = changed_ipa])

\* change_loop as it would be if a track that no longer applies ended the
\* loop instead of being passed over
RECURSIVE change_loop_stopped(_, _, _, _)
change_loop_stopped(store, tracks, k, sequence) ==
    IF k > Len(tracks) THEN [sequence |-> sequence, raised |-> FALSE]
    ELSE
    LET successful_track == tracks[k]
        index_to_change == successful_track.index
        ipa_to_change == sequence[index_to_change + 1]
        applied_rule == Rules_get(store, successful_track.rule)
        features_to_change == get_features(ipa_to_change)
    IN  IF index_to_change + 1 > Len(sequence)
        THEN [sequence |-> sequence, raised |-> TRUE]
        ELSE
        IF ~is_features_submatch(applied_rule.source, features_to_change)
        THEN [sequence |-> sequence, raised |-> FALSE]
        ELSE
        LET changed_ipa ==
                change_symbol(applied_rule.source, applied_rule.target, ipa_to_change)
        IN  IF changed_ipa = IndexError
            THEN [sequence |-> sequence, raised |-> TRUE]
            ELSE change_loop_stopped(store, tracks, k + 1,
                             [sequence EXCEPT ![index_to_change + 1] = changed_ipa])

\* the loop over successful_tracks from the k-th on: the sequence as the
\* loop leaves it, and whether change_symbol raised
RECURSIVE change_loop(_, _, _, _)
change_loop(store, tracks, k, sequence) ==
    IF k > Len(tracks) THEN [sequence |-> sequence, raised |-> FALSE]
    ELSE
    LET successful_track == tracks[k]
        index_to_change == successful_track.index
        ipa_to_change == sequence[index_to_change + 1]
        applied_rule == Rules_get(store, successful_track.rule)
        features_to_change == get_features(ipa_to_change)
    IN  IF index_to_change + 1 > Len(sequence)
        THEN [sequence |-> sequence, raised |-> TRUE]
        ELSE
        IF ~is_features_submatch(applied_rule.source, features_to_change)
        THEN change_loop(store, tracks, k + 1, sequence)
        ELSE
        LET changed_ipa ==
                change_symbol(applied_rule.source, applied_rule.target, ipa_to_change)
        IN  IF changed_ipa = IndexError
            THEN [sequence |-> sequence, raised |-> TRUE]
            ELSE change_loop(store, tracks, k + 1,
                             [sequence EXCEPT ![index_to_change + 1] = changed_ipa])

\* apply_rules as it would be if new_ipa_sequence were the caller's list
\* itself and not a copy of it
apply_rules_aliased(store, word) ==
    IF \E i \in 1..Len(word) : ~has_ipa(word[i])
    THEN [raised |-> TRUE, rule_tracker |-> RuleTracker,
          successful_tracks |-> << >>, new_ipa_sequence |-> << >>,
          ipa_string |-> word]
    ELSE
    LET scanned == scan(store, word, Len(word))
        changed == change_loop(store, scanned.successful_tracks, 1, word)
    IN  [raised |-> changed.raised, rule_tracker |-> scanned.rule_tracker,
         successful_tracks |-> scanned.successful_tracks,
         new_ipa_sequence |-> changed.sequence,
         ipa_string |-> changed.sequence]

\* apply_rules as it would be if the tracks still live when the scan ends
\* were changed too, wherever they had found their source sound
apply_rules_live(store, word) ==
    IF \E i \in 1..Len(word) : ~has_ipa(word[i])
    THEN [raised |-> TRUE, rule_tracker |-> RuleTracker,
          successful_tracks |-> << >>, new_ipa_sequence |-> << >>,
          ipa_string |-> word]
    ELSE
    LET scanned == scan(store, word, Len(word))
        found(a_track) == a_track.index >= 0
        changed == change_loop(store,
                       scanned.successful_tracks
                           \o SelectSeq(scanned.rule_tracker.tracks, found),
                       1, word)
    IN  [raised |-> changed.raised, rule_tracker |-> scanned.rule_tracker,
         successful_tracks |-> scanned.successful_tracks,
         new_ipa_sequence |-> changed.sequence,
         ipa_string |-> word]

\* apply_rules as a whole, in a call that follows one that ended with the
\* tracker `previous`: what it leaves and returns, or that it raised;
\* ipa_string is the caller's list as the call leaves it
apply_rules_after(store, word, previous) ==
    IF \E i \in 1..Len(word) : ~has_ipa(word[i])
    THEN \* get_features of an unknown symbol fails while word_features is built
         [raised |-> TRUE, rule_tracker |-> new_tracker(previous),
          successful_tracks |-> << >>, new_ipa_sequence |-> << >>,
          ipa_string |-> word]
    ELSE
    LET scanned == scan_after(store, word, Len(word), previous)
        changed == change_loop(store, scanned.successful_tracks, 1, word)
    IN  [raised |-> changed.raised, rule_tracker |-> scanned.rule_tracker,
         successful_tracks |-> scanned.successful_tracks,
         new_ipa_sequence |-> changed.sequence,
         ipa_string |-> word]

\* apply_rules as a whole, in the first call
apply_rules(store, word) == apply_rules_after(store, word, RuleTracker)

----------------------------------------------------------------------------
(* The calls the model makes *)

\* every sequence over `symbols` of at most n entries
SeqsUpTo(symbols, n) == UNION {[1..m -> symbols] : m \in 0..n}

\* the symbols of the sequences handed to apply_rules; "?" is in no registry
Alphabet == {"a", "k", "x", "?"}
Inputs == SeqsUpTo(Alphabet, MaxLen)

\* the rules the tests add
Fricativization ==
    [source |-> <<"stop">>, target |-> <<"fricative">>, environment |-> <<"V", "_", "V">>]
Voicing ==
    [source |-> <<"voiceless">>, target |-> <<"voiced">>, environment |-> <<"V", "_", "V">>]
Inapplicable ==
    [source |-> <<"dental">>, target |-> <<"velar">>, environment |-> <<"_", "V">>]
Nonexisting ==
    [source |-> <<"velar">>, target |-> <<"palatal">>, environment |-> <<"_">>]
Nochange ==
    [source |-> <<"velar">>, target |-> <<"velar">>, environment |-> <<"_", "V">>]
VowelNochange ==
    [source |-> <<"vowel">>, target |-> <<"vowel">>, environment |-> <<"_">>]

\* the rules add_rule is called with
ValidRuleSpecs ==
    {Fricativization, Voicing, Inapplicable, Nonexisting, Nochange}

\* the rules one of which is stored when only one is
SingleRuleSpecs == ValidRuleSpecs \cup {VowelNochange}

\* calls add_rule has to refuse: no focus marker, two focus markers, an
\* unregistered feature, an empty feature list
InvalidRuleSpecs ==
    { [source |-> <<"stop">>, target |-> <<"fricative">>, environment |-> <<"V", "V">>],
      [source |-> <<"stop">>, target |-> <<"fricative">>, environment |-> <<"_", "V", "_">>],
      [source |-> <<"stop">>, target |-> <<"fricative">>, environment |-> << >>],
      [source |-> <<"nasal">>, target |-> <<"voiced">>, environment |-> <<"V", "_", "V">>],
      [source |-> <<"stop">>, target |-> << >>, environment |-> <<"_">>],
      [source |-> <<"stop", "nasal">>, target |-> <<"fricative">>, environment |-> <<"_">>],
      [source |-> <<"stop">>, target |-> <<"nasal">>, environment |-> <<"V", "_", "V">>] }

RuleSpecs == ValidRuleSpecs \cup InvalidRuleSpecs

----------------------------------------------------------------------------
(* Phonology.add_rule *)

\* add_rule as it would be if the feature lists were handed to the rule
\* store as given, neither parsed nor tested
add_rule_unvetted(store, minted, source, target, environment_structure) ==
    Rules_add(store, minted,
              {source[i] : i \in 1..Len(source)},
              {target[i] : i \in 1..Len(target)},
              environment_structure)

\* the store and the counter after the call, and the minted id (0 when
\* nothing is returned)
add_rule(store, minted, source, target, environment_structure) ==
    LET vetted_source == parse_features(source)
        vetted_target == parse_features(target)
    IN  IF vetted_source = {} \/ vetted_target = {}
        THEN [rules |-> store, next_id |-> minted, id |-> 0]
        ELSE Rules_add(store, minted, vetted_source, vetted_target, environment_structure)

----------------------------------------------------------------------------
(* Phonology.get_rule, has_rule, remove_rule *)

\* the ids the rule store is asked about: every id add_rule can mint, and
\* one it never mints
RuleIds == 1..(MaxRules + 1)

\* get_rule without pretty_print: the rule, or nothing for an unknown id
get_rule(store, rule_id) ==
    IF Rules_has(store, rule_id) THEN RuleValue(Rules_get(store, rule_id))
    ELSE None

has_rule(store, rule_id) == Boolean(Rules_has(store, rule_id))

\* remove_rule as it would be if an unknown id removed the rule added last
remove_rule_any(store, rule_id) ==
    IF Rules_has(store, rule_id) \/ Len(store) = 0
    THEN [rules |-> Rules_remove(store, rule_id), removed |-> get_rule(store, rule_id)]
    ELSE [rules |-> SubSeq(store, 1, Len(store) - 1), removed |-> None]

\* remove_rule: the store after the call and the removed rule (nothing for
\* an unknown id)
remove_rule(store, rule_id) ==
    [rules |-> Rules_remove(store, rule_id), removed |-> get_rule(store, rule_id)]

----------------------------------------------------------------------------
(* Actions *)

Init ==
    /\ rules = << >>
    /\ next_id = 0
    /\ pc = "idle"
    /\ op = "none"
    /\ args = NoArgs
    /\ ret = None
    /\ ipa_string = << >>
    /\ rule_tracker = RuleTracker
    /\ successful_tracks = << >>
    /\ new_ipa_sequence = << >>
    /\ syllables = << >>
    /\ exponent_order = << >>

NoApply ==
    /\ ipa_string' = << >>
    /\ rule_tracker' = RuleTracker
    /\ successful_tracks' = << >>
    /\ new_ipa_sequence' = << >>

\* a call of add_rule
AddRule ==
    /\ pc = "idle"
    /\ \E rule_spec \in RuleSpecs :
         LET added == add_rule(rules, next_id, rule_spec.source, rule_spec.target,
                               rule_spec.environment)
         IN  /\ added.next_id <= MaxRules
             /\ rules' = added.rules
             /\ next_id' = added.next_id
             /\ args' = rule_spec
             /\ ret' = IF added.id = 0 THEN None ELSE RuleId(added.id)
    /\ op' = "add_rule"
    /\ pc' = "returned"
    /\ NoApply
    /\ UNCHANGED <<syllables, exponent_order>>

\* a call of get_rule
GetRule ==
    /\ pc = "idle"
    /\ \E rule_id \in RuleIds :
         /\ args' = [rule_id |-> rule_id]
         /\ ret' = get_rule(rules, rule_id)
    /\ op' = "get_rule"
    /\ pc' = "returned"
    /\ NoApply
    /\ UNCHANGED <<rules, next_id, syllables, exponent_order>>

\* a call of has_rule
HasRule ==
    /\ pc = "idle"
    /\ \E rule_id \in RuleIds :
         /\ args' = [rule_id |-> rule_id]
         /\ ret' = has_rule(rules, rule_id)
    /\ op' = "has_rule"
    /\ pc' = "returned"
    /\ NoApply
    /\ UNCHANGED <<rules, next_id, syllables, exponent_order>>

\* a call of remove_rule
RemoveRule ==
    /\ pc = "idle"
    /\ \E rule_id \in RuleIds :
         LET removed == remove_rule(rules, rule_id)
         IN  /\ rules' = removed.rules
             /\ args' = [rule_id |-> rule_id]
             /\ ret' = removed.removed
    /\ op' = "remove_rule"
    /\ pc' = "returned"
    /\ NoApply
    /\ UNCHANGED <<next_id, syllables, exponent_order>>

\* a call of apply_rules with a sequence of `words`
ApplyRules(words) ==
    /\ pc = "idle"
    /\ \E word \in words :
         LET applied == apply_rules(rules, word)
         IN  /\ args' = [ipa_string |-> word]
             /\ ipa_string' = applied.ipa_string
             /\ rule_tracker' = applied.rule_tracker
             /\ successful_tracks' = applied.successful_tracks
             /\ new_ipa_sequence' = applied.new_ipa_sequence
             /\ pc' = IF applied.raised THEN "raised" ELSE "returned"
             /\ ret' = IF applied.raised THEN None
                       ELSE Sequence(applied.new_ipa_sequence)
    /\ op' = "apply_rules"
    /\ UNCHANGED <<rules, next_id, syllables, exponent_order>>

\* the caller takes the result, or the exception, and goes on
Return ==
    /\ pc \in {"returned", "raised"}
    /\ pc' = "idle"
    /\ op' = "none"
    /\ args' = NoArgs
    /\ ret' = None
    /\ NoApply
    /\ UNCHANGED <<rules, next_id, syllables, exponent_order>>

Next ==
    \/ AddRule
    \/ GetRule
    \/ HasRule
    \/ RemoveRule
    \/ ApplyRules(Inputs)
    \/ Return

Spec == Init /\ [][Next]_vars

----------------------------------------------------------------------------
(* One stored rule, longer sequences of registered symbols *)

AlphabetSingle == {"a", "u", "k", "x"}
InputsSingle == SeqsUpTo(AlphabetSingle, MaxLenSingle)

\* the state after one successful add_rule
InitSingle ==
    /\ \E rule_spec \in SingleRuleSpecs :
         LET added == add_rule(<< >>, 0, rule_spec.source, rule_spec.target,
                               rule_spec.environment)
         IN  /\ rules = added.rules
             /\ next_id = added.next_id
    /\ pc = "idle"
    /\ op = "none"
    /\ args = NoArgs
    /\ ret = None
    /\ ipa_string = << >>
    /\ rule_tracker = RuleTracker
    /\ successful_tracks = << >>
    /\ new_ipa_sequence = << >>
    /\ syllables = << >>
    /\ exponent_order = << >>

NextSingle ==
    \/ ApplyRules(InputsSingle)
    \/ Return

SpecSingle == InitSingle /\ [][NextSingle]_vars

----------------------------------------------------------------------------
(* Calls of apply_rules that follow one another, under one or two rules *)

AlphabetAgain == {"a", "k"}
InputsAgain == SeqsUpTo(AlphabetAgain, MaxLenAgain)

\* the state after one or two successful add_rule
InitAgain ==
    /\ \E first \in {Fricativization, Nochange} : \E second \in {Voicing} :
       \E both \in BOOLEAN :
         LET one == add_rule(<< >>, 0, first.source, first.target, first.environment)
             two == add_rule(one.rules, one.next_id, second.source, second.target,
                             second.environment)
         IN  /\ rules = IF both THEN two.rules ELSE one.rules
             /\ next_id = IF both THEN two.next_id ELSE one.next_id
    /\ pc = "idle"
    /\ op = "none"
    /\ args = NoArgs
    /\ ret = None
    /\ ipa_string = << >>
    /\ rule_tracker = RuleTracker
    /\ successful_tracks = << >>
    /\ new_ipa_sequence = << >>
    /\ syllables = << >>
    /\ exponent_order = << >>

\* a call of apply_rules right after another one; live_before is the number
\* of tracks that one left live when it ended
ApplyRulesAgain(words) ==
    /\ pc \in {"returned", "raised"}
    /\ op = "apply_rules"
    /\ \E word \in words :
         LET applied == apply_rules_after(rules, word, rule_tracker)
         IN  /\ args' = [ipa_string |-> word,
                         live_before |-> Len(rule_tracker.tracks)]
             /\ ipa_string' = applied.ipa_string
             /\ rule_tracker' = applied.rule_tracker
             /\ successful_tracks' = applied.successful_tracks
             /\ new_ipa_sequence' = applied.new_ipa_sequence
             /\ pc' = IF applied.raised THEN "raised" ELSE "returned"
             /\ ret' = IF applied.raised THEN None
                       ELSE Sequence(applied.new_ipa_sequence)
    /\ UNCHANGED <<rules, next_id, op, syllables, exponent_order>>

NextAgain ==
    \/ ApplyRules(InputsAgain)
    \/ ApplyRulesAgain(InputsAgain)
    \/ Return

SpecAgain == InitAgain /\ [][NextAgain]_vars

----------------------------------------------------------------------------
(* change_symbol called on its own, as the tests do *)

\* the feature lists change_symbol is called with: those of the rules of
\* the tests, and two with more than one feature
ChangeSources ==
    {{"voiceless"}, {"stop"}, {"velar"}, {"vowel"}, {"dental"}, {"voiceless", "stop"}}
ChangeTargets ==
    {{"voiced"}, {"fricative"}, {"velar"}, {"vowel"}, {"palatal"}, {"voiced", "fricative"}}

\* every registered symbol
Symbols == {Phonetics[i].ipa : i \in 1..Len(Phonetics)}

\* a call of change_symbol
ChangeSymbol ==
    /\ pc = "idle"
    /\ \E source_features \in ChangeSources : \E target_features \in ChangeTargets :
       \E ipa_symbol \in Symbols :
         LET new_symbol == change_symbol(source_features, target_features, ipa_symbol)
         IN  /\ args' = [source_features |-> source_features,
                         target_features |-> target_features,
                         ipa_symbol |-> ipa_symbol]
             /\ ret' = IF new_symbol = IndexError THEN None ELSE Symbol(new_symbol)
             /\ pc' = IF new_symbol = IndexError THEN "raised" ELSE "returned"
    /\ op' = "change_symbol"
    /\ NoApply
    /\ UNCHANGED <<rules, next_id, syllables, exponent_order>>

NextChange ==
    \/ ChangeSymbol
    \/ Return

SpecChange == Init /\ [][NextChange]_vars

----------------------------------------------------------------------------
(* Syllables: syllable structures and syllabify (phonology/syllables.py) *)

\* what raise ValueError ends in
ValueError == [kind |-> "ValueError"]

\* Syllables.structure of a string of syllable characters: one feature list
\* per character
Syllables_structure(raw_structure) ==
    [i \in 1..Len(raw_structure) |-> {syllable_characters[raw_structure[i]]}]

\* Syllables.add of one structure: the map with the structure stored under
\* a new id (the map is kept as the list of its values, in insertion order)
Syllables_add(stored, raw_structure) ==
    Append(stored, Syllables_structure(raw_structure))

\* Syllables.is_syllable: the fragment is not empty and some stored
\* structure of its length has, slot by slot, only features the sound has
is_syllable(stored, syllable_fragment) ==
    /\ Len(syllable_fragment) > 0
    /\ \E s \in 1..Len(stored) :
         /\ Len(stored[s]) = Len(syllable_fragment)
         /\ \A i \in 1..Len(syllable_fragment) :
              stored[s][i] \subseteq get_features(syllable_fragment[i])

\* Syllables._vet_sounds: the registered sounds of the sample, in order
vet_sounds(sample) == SelectSeq(sample, has_ipa)

\* the list [None]
NoneList == [syllables |-> << >>, has_none |-> TRUE]

\* the loop of _find_left_syllable as it would be if a cut whose rest
\* cannot be split ended the search
RECURSIVE find_left_syllable_from_first(_, _, _)
find_left_syllable_from_first(stored, sounds, i) ==
    IF i < 0 THEN NoneList
    ELSE IF is_syllable(stored, SubSeq(sounds, 1, i))
    THEN LET rest == IF i = Len(sounds) THEN [syllables |-> << >>, has_none |-> FALSE]
                     ELSE find_left_syllable_from_first(
                              stored, SubSeq(sounds, i + 1, Len(sounds)),
                              Len(sounds) - i)
         IN  IF rest.has_none THEN NoneList
             ELSE [syllables |-> <<SubSeq(sounds, 1, i)>> \o rest.syllables,
                   has_none  |-> FALSE]
    ELSE find_left_syllable_from_first(stored, sounds, i - 1)

\* the loop of _find_left_syllable over the cuts i, i - 1, ..., 0 of a
\* sample that is not empty: the syllables found (has_none when the list
\* holds None)
RECURSIVE find_left_syllable_from(_, _, _)
find_left_syllable_from(stored, sounds, i) ==
    IF i < 0 THEN NoneList
    ELSE IF is_syllable(stored, SubSeq(sounds, 1, i))
    THEN LET rest == IF i = Len(sounds) THEN [syllables |-> << >>, has_none |-> FALSE]
                     ELSE find_left_syllable_from(
                              stored, SubSeq(sounds, i + 1, Len(sounds)),
                              Len(sounds) - i)
         IN  IF rest.has_none
             THEN find_left_syllable_from(stored, sounds, i - 1)
             ELSE [syllables |-> <<SubSeq(sounds, 1, i)>> \o rest.syllables,
                   has_none  |-> FALSE]
    ELSE find_left_syllable_from(stored, sounds, i - 1)

\* Syllables._find_left_syllable
find_left_syllable(stored, sounds) ==
    IF Len(sounds) = 0 THEN [syllables |-> << >>, has_none |-> FALSE]
    ELSE find_left_syllable_from(stored, sounds, Len(sounds))

\* Syllables.syllabify of a list: the list of syllables, nothing, or
\* ValueError
syllabify(stored, sounds) ==
    LET vetted_sample == vet_sounds(sounds)
        syllabification == find_left_syllable(stored, vetted_sample)
    IN  IF Len(vetted_sample) = 0 THEN ValueError
        ELSE IF Len(syllabification.syllables) = 0 \/ syllabification.has_none
        THEN None
        ELSE Sequence(syllabification.syllables)

\* the structures the tests add
SyllableShapes ==
    {<<"C", "V">>, <<"C", "V", "V">>, <<"V">>, <<"C", "V", "C">>}

\* the sounds of the samples handed to syllabify; "?" is in no registry
AlphabetSyllables == {"a", "k", "?"}
InputsSyllables == SeqsUpTo(AlphabetSyllables, MaxLenSyllables)

\* a call of Syllables.add with one structure
AddSyllable ==
    /\ pc = "idle"
    /\ Len(syllables) < MaxSyllables
    /\ \E raw_structure \in SyllableShapes :
         /\ syllables' = Syllables_add(syllables, raw_structure)
         /\ args' = [structure |-> raw_structure]
         /\ ret' = SyllableId(Len(syllables) + 1)
    /\ op' = "add_syllable"
    /\ pc' = "returned"
    /\ NoApply
    /\ UNCHANGED <<rules, next_id, exponent_order>>

\* a call of syllabify
Syllabify ==
    /\ pc = "idle"
    /\ \E sounds \in InputsSyllables :
         LET syllabification == syllabify(syllables, sounds)
         IN  /\ args' = [sounds |-> sounds]
             /\ ret' = IF syllabification = ValueError THEN None ELSE syllabification
             /\ pc' = IF syllabification = ValueError THEN "raised" ELSE "returned"
    /\ op' = "syllabify"
    /\ NoApply
    /\ UNCHANGED <<rules, next_id, syllables, exponent_order>>

NextSyllables ==
    \/ AddSyllable
    \/ Syllabify
    \/ Return

SpecSyllables == Init /\ [][NextSyllables]_vars

----------------------------------------------------------------------------
(* Morphosyntax: relative exponent order (grammar/morphosyntax.py) *)

\* what a lookup of a missing key ends in
KeyError == [kind |-> "KeyError"]

\* the exponents of the grammar (grammar.exponents), and an id it does not have
Exponents == {"exponent1", "exponent2", "exponent3", "exponent4"}
UnknownExponent == "exponent0"

\* an entry of exponent_order with both positions empty
NoRelatives == [inner |-> {}, outer |-> {}]

opposite(position) == IF position = "outer" THEN "inner" ELSE "outer"

\* exponent_order.setdefault(exponent_id, ...) with both positions set
with_entry(order, exponent_id) ==
    [e \in DOMAIN order \cup {exponent_id} |->
        IF e \in DOMAIN order THEN order[e] ELSE NoRelatives]

\* the loop over added_exponents: each one leaves the opposite position of
\* the main exponent, takes the main exponent into its own opposite position
\* and drops it from its own `position`
RECURSIVE reverse_update(_, _, _, _)
reverse_update(order, exponent_id, position, added_exponents) ==
    IF added_exponents = {} THEN order
    ELSE
    LET added_exponent == CHOOSE e \in added_exponents : TRUE
        discarded == [order EXCEPT ![exponent_id][opposite(position)] =
                                        @ \ {added_exponent}]
        details == with_entry(discarded, added_exponent)
        added == [details EXCEPT ![added_exponent][opposite(position)] =
                                        @ \cup {exponent_id}]
        dropped == [added EXCEPT ![added_exponent][position] = @ \ {exponent_id}]
    IN  reverse_update(dropped, exponent_id, position,
                       added_exponents \ {added_exponent})

\* one pass of the merge loop of add_exponent_order, for one position
merge_position(order, exponent_id, position, added_exponents) ==
    LET existing == with_entry(order, exponent_id)
        updated == [existing EXCEPT ![exponent_id][position] =
                                        added_exponents \cup @]
    IN  reverse_update(updated, exponent_id, position, added_exponents)

\* Morphosyntax.add_exponent_order with collections of ids (None is the
\* empty collection): the map after the call and what is returned
add_exponent_order(order, exponent_id, inner, outer) ==
    IF exponent_id \notin Exponents \/ (inner = {} /\ outer = {})
    THEN [exponent_order |-> order, returned |-> None]
    ELSE
    LET filtered_inner == inner \cap Exponents
        filtered_outer == outer \cap Exponents
        merged == merge_position(
                      merge_position(order, exponent_id, "inner", filtered_inner),
                      exponent_id, "outer", filtered_outer)
    IN  [exponent_order |-> merged, returned |-> Relatives(merged[exponent_id])]

\* the smallest of a set of numbers that is not empty
Min(numbers) == CHOOSE n \in numbers : \A m \in numbers : n <= m

\* the loop of arrange_exponents from pass i on (i counted from 1): the
\* ordered list, or KeyError
RECURSIVE arrange_from(_, _, _, _)
arrange_from(order, exponents_to_order, ordered_exponents, i) ==
    IF i > Len(exponents_to_order) THEN Sequence(ordered_exponents)
    ELSE IF i < Len(exponents_to_order) /\ exponents_to_order[i] \notin DOMAIN order
    THEN KeyError   \* self.exponent_order[exponent_id]['inner']
    ELSE
    LET inner_indexes ==
            {compared_index \in (i + 1)..Len(exponents_to_order) :
                exponents_to_order[compared_index]
                    \in order[exponents_to_order[i]].inner}
        inner_index == IF inner_indexes = {} THEN i ELSE Min(inner_indexes)
        swapped == [exponents_to_order EXCEPT
                        ![i] = exponents_to_order[inner_index],
                        ![inner_index] = exponents_to_order[i]]
        exponent_id == swapped[i]
        stops == {sorted_i \in 1..Len(ordered_exponents) :
                    \/ ordered_exponents[sorted_i] \notin DOMAIN order
                    \/ exponent_id \in order[ordered_exponents[sorted_i]].outer}
        placement_i == IF stops = {} THEN Len(ordered_exponents) + 1 ELSE Min(stops)
    IN  IF stops # {} /\ ordered_exponents[Min(stops)] \notin DOMAIN order
        THEN KeyError   \* self.exponent_order[sorted_exponent]['outer']
        ELSE arrange_from(order, swapped,
                          SubSeq(ordered_exponents, 1, placement_i - 1)
                              \o <<exponent_id>>
                              \o SubSeq(ordered_exponents, placement_i,
                                        Len(ordered_exponents)),
                          i + 1)

\* Morphosyntax.arrange_exponents
arrange_exponents(order, exponent_ids, filter_ordered_only) ==
    LET ordered(e) == e \in DOMAIN order
        known(e) == e \in Exponents
        filtered_exponents ==
            IF filter_ordered_only THEN SelectSeq(exponent_ids, ordered)
            ELSE SelectSeq(exponent_ids, known)
    IN  arrange_from(order, filtered_exponents, << >>, 1)

\* the calls of add_exponent_order: those of the example, the same chain
\* told from the other end, an exponent relative to itself, a reversal, and
\* calls without a known exponent or without relatives
OrderCalls ==
    { [exponent_id |-> "exponent3", inner |-> {"exponent4"}, outer |-> {}],
      [exponent_id |-> "exponent2", inner |-> {"exponent3"}, outer |-> {"exponent1"}],
      [exponent_id |-> "exponent1", inner |-> {}, outer |-> {"exponent2"}],
      [exponent_id |-> "exponent3", inner |-> {"exponent2"}, outer |-> {"exponent4"}],
      [exponent_id |-> "exponent4", inner |-> {"exponent3"}, outer |-> {}],
      [exponent_id |-> "exponent1", inner |-> {"exponent1"}, outer |-> {}],
      [exponent_id |-> "exponent1", inner |-> {UnknownExponent}, outer |-> {}],
      [exponent_id |-> "exponent1", inner |-> {}, outer |-> {}],
      [exponent_id |-> UnknownExponent, inner |-> {"exponent1"}, outer |-> {}] }

\* the lists handed to arrange_exponents: no id twice
InputsArranged ==
    {ids \in SeqsUpTo(Exponents \cup {UnknownExponent}, MaxArranged) :
        \A i, j \in 1..Len(ids) : ids[i] = ids[j] => i = j}

\* a call of add_exponent_order
AddExponentOrder ==
    /\ pc = "idle"
    /\ \E call \in OrderCalls :
         LET added == add_exponent_order(exponent_order, call.exponent_id,
                                         call.inner, call.outer)
         IN  /\ exponent_order' = added.exponent_order
             /\ args' = call
             /\ ret' = added.returned
    /\ op' = "add_exponent_order"
    /\ pc' = "returned"
    /\ NoApply
    /\ UNCHANGED <<rules, next_id, syllables>>

\* a call of arrange_exponents
ArrangeExponents ==
    /\ pc = "idle"
    /\ \E exponent_ids \in InputsArranged : \E filter_ordered_only \in BOOLEAN :
         LET arranged == arrange_exponents(exponent_order, exponent_ids,
                                           filter_ordered_only)
         IN  /\ args' = [exponent_ids |-> exponent_ids,
                         filter_ordered_only |-> filter_ordered_only]
             /\ ret' = IF arranged = KeyError THEN None ELSE arranged
             /\ pc' = IF arranged = KeyError THEN "raised" ELSE "returned"
    /\ op' = "arrange_exponents"
    /\ NoApply
    /\ UNCHANGED <<rules, next_id, syllables, exponent_order>>

NextExponents ==
    \/ AddExponentOrder
    \/ ArrangeExponents
    \/ Return

SpecExponents == Init /\ [][NextExponents]_vars

----------------------------------------------------------------------------
(* Two stored rules, in either order *)

\* voiceless -> voiced after a vowel, as the spelling tests add it
VoicingAfter ==
    [source |-> <<"voiceless">>, target |-> <<"voiced">>, environment |-> <<"V", "_">>]

\* the rules two of which are stored
PairRuleSpecs == {Fricativization, Voicing, VoicingAfter, Nochange}

AlphabetPair == {"a", "k", "g", "x"}
InputsPair == SeqsUpTo(AlphabetPair, MaxLenPair)

\* the state after two successful add_rule
InitPair ==
    /\ \E first \in PairRuleSpecs : \E second \in PairRuleSpecs :
         LET one == add_rule(<< >>, 0, first.source, first.target, first.environment)
             two == add_rule(one.rules, one.next_id, second.source, second.target,
                             second.environment)
         IN  /\ rules = two.rules
             /\ next_id = two.next_id
    /\ pc = "idle"
    /\ op = "none"
    /\ args = NoArgs
    /\ ret = None
    /\ ipa_string = << >>
    /\ rule_tracker = RuleTracker
    /\ successful_tracks = << >>
    /\ new_ipa_sequence = << >>
    /\ syllables = << >>
    /\ exponent_order = << >>

NextPair ==
    \/ ApplyRules(InputsPair)
    \/ Return

SpecPair == InitPair /\ [][NextPair]_vars

----------------------------------------------------------------------------
(* Two stored rules, sequences with unregistered symbols *)

NextWindow ==
    \/ ApplyRules(Inputs)
    \/ Return

SpecWindow == InitPair /\ [][NextWindow]_vars

----------------------------------------------------------------------------
(* The two lenition rules, added in either order *)

\* the sounds the tests register
AlphabetLenition == {"a", "k", "g", "kh", "gh", "x", "gamma"}
InputsLenition == SeqsUpTo(AlphabetLenition, MaxLenLenition)

\* the rule store after add_rule of `first` and then of `second`
LenitionStore(first, second) ==
    LET one == add_rule(<< >>, 0, first.source, first.target, first.environment)
    IN  add_rule(one.rules, one.next_id, second.source, second.target,
                 second.environment)

\* the state after the two add_rule calls of the lenition test, in the order
\* of the test or in the order of the example
InitLenition ==
    /\ \E order \in {<<Fricativization, Voicing>>, <<Voicing, Fricativization>>} :
         LET added == LenitionStore(order[1], order[2])
         IN  /\ rules = added.rules
             /\ next_id = added.next_id
    /\ pc = "idle"
    /\ op = "none"
    /\ args = NoArgs
    /\ ret = None
    /\ ipa_string = << >>
    /\ rule_tracker = RuleTracker
    /\ successful_tracks = << >>
    /\ new_ipa_sequence = << >>
    /\ syllables = << >>
    /\ exponent_order = << >>

NextLenition ==
    \/ ApplyRules(InputsLenition)
    \/ Return

SpecLenition == InitLenition /\ [][NextLenition]_vars

----------------------------------------------------------------------------

(* Properties *)

\* the call that ran last was apply_rules
Applied == op = "apply_rules"

\* every symbol of the sequence is registered
AllKnown(word) == \A i \in 1..Len(word) : has_ipa(word[i])

\* apply_rules returned `word`
Returned(word) == pc = "returned" /\ ret.kind = "list" /\ ret.list = word

\* C1: for every input sequence and every set of stored rules, apply_rules
\* returns a sequence with exactly as many elements as its input.
C1_LengthPreserved ==
    Applied => (pc = "returned" /\ ret.kind = "list"
                /\ Len(ret.list) = Len(ipa_string))

\* the k-th completed track finds no registered symbol for the features it
\* computes from the symbol the input has at its index
Unresolvable(k) ==
    LET successful_track == successful_tracks[k]
        rule == Rules_get(rules, successful_track.rule)
        ipa == ipa_string[successful_track.index + 1]
    IN  /\ is_features_submatch(rule.source, get_features(ipa))
        /\ get_ipa(new_symbol_features(rule.source, rule.target, ipa)) = << >>

\* C2: when the feature set computed for every match corresponds to no
\* registered symbol, apply_rules does not fail and returns the sequence
\* with every position unchanged.
C2_UnresolvableIsNoop ==
    (/\ Applied
     /\ AllKnown(ipa_string)
     /\ Len(successful_tracks) > 0
     /\ \A k \in 1..Len(successful_tracks) : Unresolvable(k))
    => Returned(ipa_string)

\* C3: apply_rules on an input with unregistered symbols does not fail: it
\* returns a sequence of the same length with every unregistered symbol
\* unchanged at its position.
C3_UnknownSymbolSkipped ==
    (Applied /\ ~AllKnown(ipa_string))
    => (/\ pc = "returned"
        /\ ret.kind = "list"
        /\ Len(ret.list) = Len(ipa_string)
        /\ \A i \in 1..Len(ipa_string) :
             ~has_ipa(ipa_string[i]) => ret.list[i] = ipa_string[i])

\* C6: with no rule stored, apply_rules returns its input unchanged, for
\* every input (unregistered symbols and the empty sequence included).
C6_IdentityWithoutRules ==
    (Applied /\ rules = << >>) => Returned(ipa_string)

\* the environment vowel _ vowel
VowelVowel == <<{"vowel"}, FocusSlot, {"vowel"}>>

IsVowel(ipa) == "vowel" \in get_features(ipa)

\* entry p of the sequence (counted from 1) has the source features and
\* stands between two vowels
Intervocalic(word, source, p) ==
    /\ 1 < p
    /\ p < Len(word)
    /\ IsVowel(word[p - 1])
    /\ source \subseteq get_features(word[p])
    /\ IsVowel(word[p + 1])

\* some completed track has its index at entry p (counted from 1)
MatchedAt(p) ==
    \E k \in 1..Len(successful_tracks) : successful_tracks[k].index = p - 1

\* C4: with a single rule in vowel _ vowel and an input of registered
\* symbols, a position is rewritten if and only if it is neither the first
\* nor the last, has the source features and stands between two vowels;
\* every other position keeps its symbol, also when two matches share a vowel.
C4_IntervocalicOnly ==
    (/\ Applied
     /\ Len(rules) = 1
     /\ rules[1].environment = VowelVowel
     /\ AllKnown(ipa_string))
    => /\ pc = "returned"
       /\ ret.kind = "list"
       /\ Len(ret.list) = Len(ipa_string)
       /\ \A p \in 1..Len(ipa_string) :
            /\ Intervocalic(ipa_string, rules[1].source, p) <=> MatchedAt(p)
            /\ ret.list[p] =
                 IF Intervocalic(ipa_string, rules[1].source, p)
                 THEN change_symbol(rules[1].source, rules[1].target, ipa_string[p])
                 ELSE ipa_string[p]

\* a k a k a under stop -> fricative: both k are rewritten
C4_Witness ==
    /\ Applied
    /\ Len(rules) = 1
    /\ rules[1].environment = VowelVowel
    /\ rules[1].source = {"stop"}
    /\ ipa_string = <<"a", "k", "a", "k", "a">>
    /\ Returned(<<"a", "x", "a", "x", "a">>)

\* the symbol left at one index by the completed tracks from the k-th on,
\* each one changing the symbol the one before it left
RECURSIVE layered(_, _, _, _, _)
layered(store, tracks, k, index, ipa) ==
    IF k > Len(tracks) THEN ipa
    ELSE IF tracks[k].index # index THEN layered(store, tracks, k + 1, index, ipa)
    ELSE
    LET rule == Rules_get(store, tracks[k].rule)
    IN  IF ~(rule.source \subseteq get_features(ipa))
        THEN layered(store, tracks, k + 1, index, ipa)
        ELSE layered(store, tracks, k + 1, index,
                     change_symbol(rule.source, rule.target, ipa))

\* the stored rules are stop -> fricative and voiceless -> voiced, in this
\* order, both in vowel _ vowel
LenitionRules ==
    /\ Len(rules) = 2
    /\ rules[1].source = {"stop"} /\ rules[1].target = {"fricative"}
    /\ rules[2].source = {"voiceless"} /\ rules[2].target = {"voiced"}
    /\ rules[1].environment = VowelVowel
    /\ rules[2].environment = VowelVowel

\* C5: completed matches with the same index are applied one after the
\* other, each to the symbol the one before it wrote; so the two lenition
\* rules turn k a k a into k a gamma a, which neither rule yields alone.
C5_Layering ==
    (Applied /\ pc = "returned")
    => /\ \A p \in 1..Len(ipa_string) :
            ret.list[p] = layered(rules, successful_tracks, 1, p - 1, ipa_string[p])
       /\ (LenitionRules /\ ipa_string = <<"k", "a", "k", "a">>)
            => /\ ret.list = <<"k", "a", "gamma", "a">>
               /\ apply_rules(<<rules[1]>>, ipa_string).new_ipa_sequence
                    = <<"k", "a", "x", "a">>
               /\ apply_rules(<<rules[2]>>, ipa_string).new_ipa_sequence
                    = <<"k", "a", "g", "a">>

C5_Witness ==
    /\ Applied
    /\ LenitionRules
    /\ ipa_string = <<"k", "a", "k", "a">>
    /\ Len(successful_tracks) = 2
    /\ successful_tracks[1].index = successful_tracks[2].index
    /\ Returned(<<"k", "a", "gamma", "a">>)

\* the sound satisfies slot j of the rule's environment (the focus marker
\* asks for the rule's source features)
SlotSatisfied(rule, j, ipa) ==
    IF rule.environment[j] = FocusSlot
    THEN rule.source \subseteq get_features(ipa)
    ELSE rule.environment[j] \subseteq get_features(ipa)

\* the first n slots of the rule's environment are satisfied by the window
\* of the sequence that starts at entry `start`
SlotsMatchAt(rule, word, start, n) ==
    /\ start + n - 1 <= Len(word)
    /\ \A j \in 1..n : SlotSatisfied(rule, j, word[start + j - 1])

MatchesNowhere(rule, word) ==
    \A start \in 1..Len(word) :
        ~SlotsMatchAt(rule, word, start, Len(rule.environment))

\* C7: when no window of the sequence satisfies all the slots of the
\* environment of any stored rule, apply_rules returns the sequence unchanged.
C7_NoMatchNoChange ==
    (/\ Applied
     /\ AllKnown(ipa_string)
     /\ \A i \in 1..Len(rules) : MatchesNowhere(rules[i], ipa_string))
    => (Returned(ipa_string) /\ successful_tracks = << >>)

\* a rule matched its first two slots somewhere and its environment nowhere
C7_Witness ==
    /\ Applied
    /\ AllKnown(ipa_string)
    /\ Len(rules) > 0
    /\ \A i \in 1..Len(rules) : MatchesNowhere(rules[i], ipa_string)
    /\ \E i \in 1..Len(rules) : \E start \in 1..Len(ipa_string) :
         /\ Len(rules[i].environment) > 2
         /\ SlotsMatchAt(rules[i], ipa_string, start, 2)
    /\ Returned(ipa_string)

\* no symbol of the sequence has the source features of any stored rule
SourceInNoSymbol ==
    \A i \in 1..Len(rules) : \A p \in 1..Len(ipa_string) :
        ~(rules[i].source \subseteq get_features(ipa_string[p]))

\* C8: rules whose source features are in no symbol of the input complete
\* no match and leave the whole sequence unchanged, even where their
\* context slots match.
C8_IrrelevantRule ==
    (Applied /\ AllKnown(ipa_string) /\ Len(rules) > 0 /\ SourceInNoSymbol)
    => (Returned(ipa_string) /\ successful_tracks = << >>)

\* dental -> velar in _V applied to k a
C8_Witness ==
    /\ Applied
    /\ Len(rules) = 1
    /\ rules[1].source = {"dental"}
    /\ rules[1].environment = <<FocusSlot, {"vowel"}>>
    /\ ipa_string = <<"k", "a">>
    /\ Returned(<<"k", "a">>)

\* every stored rule has its source features as its target features
SourceIsTarget == \A i \in 1..Len(rules) : rules[i].source = rules[i].target

\* the first registered symbol that has all the features of `ipa`
FirstWithFeaturesOf(ipa) == get_ipa(get_features(ipa))[1]

\* C9 as stated: a rule whose target feature set equals its source feature
\* set changes no symbol.
C9_NoChangeRule ==
    (Applied /\ AllKnown(ipa_string) /\ Len(rules) > 0 /\ SourceIsTarget)
    => Returned(ipa_string)

\* C9, amended: a rule whose target feature set equals its source feature
\* set rewrites every matched position to the first registered symbol that
\* has all the features of the symbol there, and leaves the other positions
\* alone; the sequence comes back unchanged when every matched symbol is
\* that first symbol itself.
C9_NoChangeRuleFirstRegistered ==
    (Applied /\ AllKnown(ipa_string) /\ Len(rules) > 0 /\ SourceIsTarget)
    => /\ pc = "returned"
       /\ ret.kind = "list"
       /\ Len(ret.list) = Len(ipa_string)
       /\ \A p \in 1..Len(ipa_string) :
            ret.list[p] = IF MatchedAt(p) THEN FirstWithFeaturesOf(ipa_string[p])
                          ELSE ipa_string[p]
       /\ (\A p \in 1..Len(ipa_string) :
             MatchedAt(p) => FirstWithFeaturesOf(ipa_string[p]) = ipa_string[p])
            => ret.list = ipa_string

\* velar -> velar in _V applied to k a
C9_Witness ==
    /\ Applied
    /\ Len(rules) = 1
    /\ rules[1].source = {"velar"}
    /\ rules[1].target = {"velar"}
    /\ ipa_string = <<"k", "a">>
    /\ MatchedAt(1)
    /\ Returned(<<"k", "a">>)

\* number of focus markers in the environment handed to add_rule
raw_focus_count(environment_structure) ==
    Cardinality({i \in 1..Len(environment_structure) : environment_structure[i] = "_"})

\* C10: add_rule with an environment that holds no focus marker, or more
\* than one, returns no rule id and leaves the rule store as it was.
C10_OneFocusRequired ==
    [][(/\ pc = "idle"
        /\ op' = "add_rule"
        /\ raw_focus_count(args'.environment) # 1)
       => (/\ ret' = None
           /\ rules' = rules
           /\ next_id' = next_id)]_vars

\* add_rule was refused an environment with two focus markers while a rule
\* was stored
C10_Witness ==
    /\ op = "add_rule"
    /\ raw_focus_count(args.environment) = 2
    /\ Len(rules) > 0
    /\ ret = None

\* the list does not parse to a non-empty set of registered features
Unparsable(features) ==
    \/ Len(features) = 0
    \/ \E i \in 1..Len(features) : ~has_feature(features[i])

\* C11: add_rule with a source or a target that does not parse to a
\* non-empty set of registered features returns no rule id and leaves the
\* rule store, and its id counter, as they were.
C11_UnparsableRefused ==
    [][(/\ pc = "idle"
        /\ op' = "add_rule"
        /\ (Unparsable(args'.source) \/ Unparsable(args'.target)))
       => (/\ ret' = None
           /\ rules' = rules
           /\ next_id' = next_id)]_vars

\* add_rule was refused a source with one registered and one unregistered
\* feature, under a well-formed environment, while a rule was stored
C11_Witness ==
    /\ op = "add_rule"
    /\ args.source = <<"stop", "nasal">>
    /\ ~Unparsable(args.target)
    /\ raw_focus_count(args.environment) = 1
    /\ Len(rules) > 0
    /\ ret = None

\* C12: a successful add_rule returns an id that was not in the rule store
\* before and was never handed out; has_rule(id) is true from then on,
\* through every add and every removal of another rule, until
\* remove_rule(id), and false after it for good.
C12_RuleLifecycle ==
    [][/\ (pc = "idle" /\ op' = "add_rule" /\ ret' # None)
            => /\ ret'.kind = "rule_id"
               /\ ret'.id > next_id
               /\ ~Rules_has(rules, ret'.id)
               /\ Rules_has(rules', ret'.id)
       /\ (pc = "idle" /\ op' = "has_rule")
            => /\ ret' = Boolean(Rules_has(rules, args'.rule_id))
               /\ rules' = rules
       /\ \A id \in RuleIds :
            /\ (Rules_has(rules, id) /\ ~Rules_has(rules', id))
                 => (pc = "idle" /\ op' = "remove_rule" /\ args'.rule_id = id)
            /\ (pc = "idle" /\ op' = "remove_rule" /\ args'.rule_id = id)
                 => ~Rules_has(rules', id)
            /\ (id <= next_id /\ ~Rules_has(rules, id))
                 => ~Rules_has(rules', id)]_vars

\* has_rule answered true for the first rule after the second one was added
\* and removed
C12_Witness ==
    /\ op = "has_rule"
    /\ args.rule_id = 1
    /\ ret = Boolean(TRUE)
    /\ next_id = 2
    /\ Len(rules) = 1

\* C13: remove_rule and get_rule with an id that is not in the rule store
\* return nothing and leave the rule store as it was; get_rule never
\* changes it.
C13_UnknownRule ==
    [][/\ (/\ pc = "idle"
           /\ op' \in {"remove_rule", "get_rule"}
           /\ ~Rules_has(rules, args'.rule_id))
            => (ret' = None /\ rules' = rules /\ next_id' = next_id)
       /\ (pc = "idle" /\ op' = "get_rule") => rules' = rules]_vars

\* remove_rule was called with the id of a removed rule while another rule
\* was stored
C13_Witness ==
    /\ op = "remove_rule"
    /\ args.rule_id = 1
    /\ ret = None
    /\ Len(rules) = 1
    /\ rules[1].id = 2

\* C14: when apply_rules returns t and no window of t satisfies the
\* environment of any stored rule, apply_rules of t under the same rules
\* returns t.
C14_FixedPoint ==
    (/\ Applied
     /\ pc = "returned"
     /\ \A i \in 1..Len(rules) : MatchesNowhere(rules[i], ret.list))
    => LET again == apply_rules(rules, ret.list)
       IN  /\ ~again.raised
           /\ again.new_ipa_sequence = ret.list

\* the two lenition rules turned a k a k into a sequence that differs from
\* the input and that no rule matches any more
C14_Witness ==
    /\ Applied
    /\ pc = "returned"
    /\ LenitionRules
    /\ ipa_string = <<"a", "k", "a", "k">>
    /\ ret.list = <<"a", "gamma", "a", "k">>
    /\ \A i \in 1..Len(rules) : MatchesNowhere(rules[i], ret.list)
    /\ apply_rules(rules, ret.list).new_ipa_sequence = ret.list

\* C15: apply_rules leaves the rule store (the rules, their ids, sources,
\* targets and environments, and the id counter) and the list it was handed
\* as they were, whether it returns or fails; what it returns is another
\* list.
C15_Frame ==
    [][(pc = "idle" /\ op' = "apply_rules")
       => (/\ rules' = rules
           /\ next_id' = next_id
           /\ ipa_string' = args'.ipa_string
           /\ pc' = "returned" => ret' = Sequence(new_ipa_sequence'))]_vars

\* apply_rules under two stored rules returned a sequence that differs from
\* the one it was handed
C15_Witness ==
    /\ Applied
    /\ pc = "returned"
    /\ Len(rules) = 2
    /\ ipa_string = args.ipa_string
    /\ ret.list # ipa_string
    /\ Len(successful_tracks) > 1

Syllabified == op = "syllabify"

\* the sounds of a list of syllables, one after the other
RECURSIVE Flatten(_)
Flatten(list) == IF Len(list) = 0 THEN << >> ELSE Head(list) \o Flatten(Tail(list))

\* the sounds can be cut into stored syllables with nothing left over
RECURSIVE Splittable(_, _)
Splittable(stored, sounds) ==
    \/ Len(sounds) = 0
    \/ \E i \in 1..Len(sounds) :
         /\ is_syllable(stored, SubSeq(sounds, 1, i))
         /\ Splittable(stored, SubSeq(sounds, i + 1, Len(sounds)))

\* `list` cuts `sounds` into stored syllables
IsSplitOf(stored, list, sounds) ==
    /\ Flatten(list) = sounds
    /\ \A k \in 1..Len(list) : is_syllable(stored, list[k])

\* every syllable of `list` is the longest that leaves a rest that can be cut
LongestFirst(stored, list) ==
    \A k \in 1..Len(list) :
        LET rest == Flatten(SubSeq(list, k, Len(list)))
        IN  \A i \in (Len(list[k]) + 1)..Len(rest) :
                ~(/\ is_syllable(stored, SubSeq(rest, 1, i))
                  /\ Splittable(stored, SubSeq(rest, i + 1, Len(rest))))

\* C17 as stated: syllabify returns a list of stored syllables whose sounds,
\* one after the other, are the registered sounds of the sample whenever
\* these can be cut that way, and nothing when they cannot.
C17_Syllabify ==
    Syllabified
    => /\ pc = "returned"
       /\ IF Splittable(syllables, vet_sounds(args.sounds))
          THEN /\ ret.kind = "list"
               /\ IsSplitOf(syllables, ret.list, vet_sounds(args.sounds))
          ELSE ret = None

\* C17, amended: for a sample with a registered sound, syllabify returns a
\* list of stored syllables whose sounds are the registered sounds of the
\* sample, each syllable the longest that leaves a rest that can be cut,
\* whenever such a cut exists, and nothing when none exists; for a sample
\* without any registered sound it raises ValueError.
C17_SyllabifyRegistered ==
    Syllabified
    => IF Len(vet_sounds(args.sounds)) = 0
       THEN pc = "raised"
       ELSE /\ pc = "returned"
            /\ IF Splittable(syllables, vet_sounds(args.sounds))
               THEN /\ ret.kind = "list"
                    /\ IsSplitOf(syllables, ret.list, vet_sounds(args.sounds))
                    /\ LongestFirst(syllables, ret.list)
               ELSE ret = None

\* with CV and CVC stored, k a k a was cut after k a, the longer k a k
\* leaving a rest that cannot be cut
C17_Witness ==
    /\ Syllabified
    /\ syllables = <<Syllables_structure(<<"C", "V">>),
                     Syllables_structure(<<"C", "V", "C">>)>>
    /\ args.sounds = <<"k", "a", "k", "a">>
    /\ ret = Sequence(<< <<"k", "a">>, <<"k", "a">> >>)

\* the call that ran last was change_symbol
Changed == op = "change_symbol"

\* (features of the symbol minus (source minus target)) union target
FeatureAlgebra(source, target, ipa) ==
    (get_features(ipa) \ (source \ target)) \cup target

\* some registered symbol has all of `features`
Resolvable(features) ==
    \E i \in 1..Len(Phonetics) : features \subseteq Phonetics[i].features

\* C19: change_symbol resolves the set (features of the symbol minus (source
\* minus target)) union target: the symbol it returns has every feature of
\* that set, so every feature of the old symbol that is not in the source,
\* every feature that source and target share, and every target feature;
\* it fails only when no registered symbol has them all.  voiceless ->
\* voiced turns k into g and aspirated kh into gh.
C19_FeatureAlgebra ==
    Changed
    => LET computed == FeatureAlgebra(args.source_features, args.target_features,
                                      args.ipa_symbol)
       IN  /\ (pc = "returned") = Resolvable(computed)
           /\ pc = "returned"
                => /\ ret.kind = "symbol"
                   /\ computed \subseteq get_features(ret.ipa)
                   /\ get_features(args.ipa_symbol) \ args.source_features
                        \subseteq get_features(ret.ipa)
                   /\ args.source_features \cap args.target_features
                        \subseteq get_features(ret.ipa)
                   /\ args.target_features \subseteq get_features(ret.ipa)
           /\ (args.source_features = {"voiceless"} /\ args.target_features = {"voiced"})
                => /\ args.ipa_symbol = "k" => ret = Symbol("g")
                   /\ args.ipa_symbol = "kh" => ret = Symbol("gh")

\* voiceless -> voiced turned the aspirated kh into gh
C19_Witness ==
    /\ Changed
    /\ args.source_features = {"voiceless"}
    /\ args.target_features = {"voiced"}
    /\ args.ipa_symbol = "kh"
    /\ ret = Symbol("gh")

\* the call that ran last was arrange_exponents
Arranged == op = "arrange_exponents"

\* the ids of the list that the grammar has and that were added to the
\* ordering map, in the order of the list
Recognised(exponent_ids) ==
    LET kept(e) == e \in Exponents /\ e \in DOMAIN exponent_order
    IN  SelectSeq(exponent_ids, kept)

\* `list` holds the entries of `of`, each one once
IsPermutation(list, of) ==
    /\ Len(list) = Len(of)
    /\ {list[i] : i \in 1..Len(list)} = {of[i] : i \in 1..Len(of)}

\* x is stored as outer of y, or y as inner of x
StoredPairs ==
    {pair \in (DOMAIN exponent_order) \X (DOMAIN exponent_order) :
        \/ pair[2] \in exponent_order[pair[1]].inner
        \/ pair[1] \in exponent_order[pair[2]].outer}

\* the pairs linked by a chain of at most n + 1 stored pairs
RECURSIVE Chains(_)
Chains(n) ==
    IF n = 0 THEN StoredPairs
    ELSE Chains(n - 1) \cup
         {pair \in (DOMAIN exponent_order) \X (DOMAIN exponent_order) :
            \E e \in DOMAIN exponent_order :
                <<pair[1], e>> \in Chains(n - 1) /\ <<e, pair[2]>> \in StoredPairs}

\* no exponent is inner to itself through a chain of stored pairs
NoCycle ==
    \A e \in DOMAIN exponent_order :
        <<e, e>> \notin Chains(Cardinality(DOMAIN exponent_order))

\* C18: arrange_exponents does not fail and returns the recognised ids of
\* its list that were added to the ordering map, each one once; when the
\* stored order has no cycle, x comes before y in the result whenever y is
\* stored as inner relative to x and both are returned.
C18_OuterToInner ==
    Arranged
    => /\ pc = "returned"
       /\ ret.kind = "list"
       /\ IsPermutation(ret.list, Recognised(args.exponent_ids))
       /\ NoCycle
            => \A i, j \in 1..Len(ret.list) :
                 ret.list[j] \in exponent_order[ret.list[i]].inner => i < j

\* the places in the registry of the symbols that have all of `features`
Supersets(features) ==
    {i \in 1..Len(Phonetics) : features \subseteq Phonetics[i].features}

\* the set the stored rule computes for the symbol the input has at entry p
ComputedAt(p) ==
    FeatureAlgebra(rules[1].source, rules[1].target, ipa_string[p])

\* C20: with one stored rule and an input of registered symbols, when some
\* registered symbol has the features computed at every matched position,
\* apply_rules returns and the symbol at each matched position is the one
\* registered first among all the symbols of the registry whose features
\* include the computed ones, in the inventory of the language or not.
C20_FirstRegistered ==
    (/\ Applied
     /\ Len(rules) = 1
     /\ AllKnown(ipa_string)
     /\ \A p \in 1..Len(ipa_string) : MatchedAt(p) => Supersets(ComputedAt(p)) # {})
    => /\ pc = "returned"
       /\ \A p \in 1..Len(ipa_string) :
            MatchedAt(p)
            => /\ Supersets(ComputedAt(p)) # {}
               /\ ret.list[p] = Phonetics[Min(Supersets(ComputedAt(p)))].ipa

\* vowel -> vowel wrote o, registered before u and outside the inventory,
\* where the input has u
C20_Witness ==
    /\ Applied
    /\ Len(rules) = 1
    /\ rules[1].source = {"vowel"}
    /\ ipa_string = <<"k", "u">>
    /\ MatchedAt(2)
    /\ Cardinality(Supersets(ComputedAt(2))) > 1
    /\ "o" \notin inventory
    /\ Returned(<<"k", "o">>)

\* the ids stored at `position` relative to the exponent; none when the
\* exponent was never added to the ordering map
StoredAt(exponent_id, position) ==
    IF exponent_id \in DOMAIN exponent_order
    THEN exponent_order[exponent_id][position]
    ELSE {}

\* C30: after any sequence of add_exponent_order calls, for all exponents A
\* and B (A = B included), B is stored as inner relative to A if and only if
\* A is stored as outer relative to B, and no exponent is stored both as
\* inner and as outer relative to the same exponent.
C30_OrderConsistent ==
    \A a \in Exponents :
        /\ \A b \in Exponents :
              b \in StoredAt(a, "inner") <=> a \in StoredAt(b, "outer")
        /\ StoredAt(a, "inner") \cap StoredAt(a, "outer") = {}

\* the commit phase after its first k completed tracks
Committed(k) == change_loop(rules, SubSeq(successful_tracks, 1, k), 1, ipa_string)

\* the completed tracks without the k-th
Without(tracks, k) == SubSeq(tracks, 1, k - 1) \o SubSeq(tracks, k + 1, Len(tracks))

\* when the commit phase comes to the k-th completed track, the symbol at its
\* index no longer has the source features of its rule
Stale(k) ==
    LET before == Committed(k - 1)
        rule == Rules_get(rules, successful_tracks[k].rule)
    IN  /\ ~before.raised
        /\ ~(rule.source \subseteq
                get_features(before.sequence[successful_tracks[k].index + 1]))

\* C21: a completed match whose rule source is no longer in the features of
\* the symbol now at its index, an earlier match having changed it, is passed
\* over: it leaves the output as it was and raises nothing, and the matches
\* after it are applied as if it had not been completed.
C21_StaleMatchSkipped ==
    (Applied /\ AllKnown(ipa_string))
    => \A k \in 1..Len(successful_tracks) :
         Stale(k)
         => /\ \E j \in 1..(k - 1) :
                 /\ successful_tracks[j].index = successful_tracks[k].index
                 /\ Committed(j).sequence # Committed(j - 1).sequence
            /\ ~Committed(k).raised
            /\ Committed(k).sequence = Committed(k - 1).sequence
            /\ LET without == change_loop(rules, Without(successful_tracks, k), 1,
                                          ipa_string)
               IN  /\ (pc = "raised") = without.raised
                   /\ pc = "returned" => ret.list = without.sequence

\* voicing after a vowel turned the first k of a k a k into g, voicing between
\* vowels was passed over there, and the last k was voiced all the same
C21_Witness ==
    /\ Applied
    /\ Len(rules) = 2
    /\ rules[1].environment = <<{"vowel"}, FocusSlot>>
    /\ rules[2].environment = VowelVowel
    /\ rules[2].source = {"voiceless"}
    /\ ipa_string = <<"a", "k", "a", "k">>
    /\ Len(successful_tracks) = 3
    /\ Stale(2)
    /\ ~Stale(3)
    /\ Returned(<<"a", "g", "a", "g">>)

\* the states of the scan of the input: entry n + 1 is the tracker and the
\* completed tracks after the first n positions
ScanStates == scan_states(rules, ipa_string, Len(ipa_string))

\* the tracks live after the first n positions
LiveAfter(states, n) == states[n + 1].rule_tracker.tracks

\* their ids
LiveIds(states, n) ==
    {LiveAfter(states, n)[i].id : i \in 1..Len(LiveAfter(states, n))}

\* the tracks the tracks loop walks at entry n of the input (counted from
\* 1): those live after the entries before it and those the rules loop
\* starts at it
WalkedAt(states, n) ==
    rules_loop(rules, 1, states[n].rule_tracker, get_features(ipa_string[n])).tracks

\* the ids of the completed tracks
CompletedIds == {successful_tracks[k].id : k \in 1..Len(successful_tracks)}

\* the entries (counted from 1) that are the source sound of a track that
\* is live after n positions and is never completed: it fails later, or the
\* input ends before its environment does
PendingAfter(states, n) ==
    LET live == LiveAfter(states, n)
        completed == CompletedIds
    IN  {live[i].index + 1 :
            i \in {j \in 1..Len(live) :
                      live[j].index >= 0 /\ live[j].id \notin completed}}

\* the entries that are the source sound of a track that is never completed
Pending(states) == UNION {PendingAfter(states, n) : n \in 1..Len(ipa_string)}

\* C22: the output of apply_rules differs from its input only at positions
\* that are the index of a completed match; a track that found its source
\* sound and then fails, or is still incomplete when the input ends, leaves
\* that sound as it is.
C22_OnlyMatchedChange ==
    (Applied /\ AllKnown(ipa_string) /\ pc = "returned")
    => LET pending == Pending(ScanStates)
       IN  /\ Len(ret.list) = Len(ipa_string)
           /\ \A p \in 1..Len(ipa_string) :
                /\ ret.list[p] # ipa_string[p] => MatchedAt(p)
                /\ (p \in pending /\ ~MatchedAt(p)) => ret.list[p] = ipa_string[p]

\* of a k a k the first k was rewritten; the last k was the source sound of
\* a track that the end of the input left incomplete, and was not rewritten
C22_Witness ==
    /\ Applied
    /\ AllKnown(ipa_string)
    /\ ipa_string = <<"a", "k", "a", "k">>
    /\ \E i \in 1..Len(rules) : rules[i].environment = VowelVowel
    /\ \A i \in 1..Len(rules) : Len(rules[i].environment) = 3
    /\ MatchedAt(2)
    /\ ~MatchedAt(4)
    /\ 4 \in PendingAfter(ScanStates, 4)
    /\ Len(rule_tracker.tracks) > 0
    /\ pc = "returned"
    /\ ret.list[2] # "k"
    /\ ret.list[4] = "k"

\* the place of the focus marker in the environment of the rule (counted
\* from 1)
FocusIndex(rule) ==
    CHOOSE j \in 1..Len(rule.environment) : rule.environment[j] = FocusSlot

\* the place of the rule in the rule store
StoreIndex(rule_id) == CHOOSE i \in 1..Len(rules) : rules[i].id = rule_id

\* the input position (counted from 0) of the first slot of a completed track
StartOf(a_track) == a_track.index - (FocusIndex(Rules_get(rules, a_track.rule)) - 1)

\* the input position (counted from 0) of the last slot of a completed track
EndOf(a_track) == StartOf(a_track) + a_track.length - 1

\* track a was created before track b: at an earlier position, or at the
\* same position for a rule stored earlier
CreatedBefore(a, b) ==
    \/ StartOf(a) < StartOf(b)
    \/ StartOf(a) = StartOf(b) /\ StoreIndex(a.rule) < StoreIndex(b.rule)

\* C23: the completed tracks are listed by the input position at which each
\* was completed, ascending, and those completed at the same position by the
\* order in which they were created; the commit phase applies them in that
\* order: every symbol of the output is what the tracks of its index yield,
\* each one applied to what the one listed before it left.
C23_CompletionOrder ==
    (Applied /\ AllKnown(ipa_string))
    => /\ LET states == ScanStates
          IN  \A n \in 0..Len(ipa_string) :
                LET ended_before(a_track) == EndOf(a_track) < n
                IN  states[n + 1].successful_tracks
                        = SelectSeq(successful_tracks, ended_before)
       /\ \A j, k \in 1..Len(successful_tracks) :
            j < k
            => \/ EndOf(successful_tracks[j]) < EndOf(successful_tracks[k])
               \/ /\ EndOf(successful_tracks[j]) = EndOf(successful_tracks[k])
                  /\ CreatedBefore(successful_tracks[j], successful_tracks[k])
                  /\ successful_tracks[j].id < successful_tracks[k].id
       /\ pc = "returned"
            => \A p \in 1..Len(ipa_string) :
                 ret.list[p] = layered(rules, successful_tracks, 1, p - 1, ipa_string[p])

\* of k a k a under velar -> velar in _V, stored first, and voicing in V_V:
\* the first k was matched at the first a; the second k was matched twice at
\* the last a, first by the voicing track, created one position earlier
C23_Witness ==
    /\ Applied
    /\ Len(rules) = 2
    /\ rules[1].environment = <<FocusSlot, {"vowel"}>>
    /\ rules[2].environment = VowelVowel
    /\ rules[2].source = {"voiceless"}
    /\ ipa_string = <<"k", "a", "k", "a">>
    /\ Len(successful_tracks) = 3
    /\ EndOf(successful_tracks[1]) = 1
    /\ EndOf(successful_tracks[2]) = 3
    /\ EndOf(successful_tracks[3]) = 3
    /\ successful_tracks[2].rule = rules[2].id
    /\ successful_tracks[3].rule = rules[1].id
    /\ Returned(<<"k", "a", "g", "a">>)

\* the next slot of the track is the focus marker and the sound at entry n
\* lacks a source feature of its rule
FocusMismatch(a_track, n) ==
    LET rule == Rules_get(rules, a_track.rule)
    IN  /\ rule.environment[a_track.count + 1] = FocusSlot
        /\ ~(rule.source \subseteq get_features(ipa_string[n]))

\* C24: a live track whose next slot is the focus marker, at a sound whose
\* features do not include the source of its rule, is dropped at that
\* position: its count is not advanced, it records no source sound and no
\* index, it is live after no later position and it is never completed.
C24_FocusMismatchDrops ==
    (Applied /\ AllKnown(ipa_string))
    => LET states == ScanStates
       IN  \A n \in 1..Len(ipa_string) :
             LET walked == WalkedAt(states, n)
             IN  \A i \in 1..Len(walked) :
                   FocusMismatch(walked[i], n)
                   => LET step == track_step(rules, walked[i], ipa_string[n],
                                             get_features(ipa_string[n]), n - 1)
                      IN  /\ step.pop
                          /\ ~step.full
                          /\ step.track.count = walked[i].count
                          /\ step.track.source = ""
                          /\ step.track.index = -1
                          /\ \A m \in n..Len(ipa_string) :
                               walked[i].id \notin LiveIds(states, m)
                          /\ walked[i].id \notin CompletedIds

\* of a x a under the two lenition rules: at x the track of stop ->
\* fricative, one slot matched, was dropped, and that of voiceless -> voiced
\* went on and was completed
C24_Witness ==
    /\ Applied
    /\ LenitionRules
    /\ ipa_string = <<"a", "x", "a">>
    /\ LET walked == WalkedAt(ScanStates, 2)
       IN  \E i \in 1..Len(walked) :
             /\ walked[i].rule = rules[1].id
             /\ walked[i].count = 1
             /\ FocusMismatch(walked[i], 2)
             /\ walked[i].id \notin CompletedIds
    /\ Len(successful_tracks) = 1
    /\ successful_tracks[1].rule = rules[2].id
    /\ Returned(<<"a", "gamma", "a">>)

\* the entry of the input (counted from 1) at which the track with this id
\* was started: the tracker hands out its ids in ascending order
BornAt(states, id) ==
    CHOOSE n \in 1..Len(ipa_string) :
        /\ states[n].rule_tracker.tracked < id
        /\ id <= states[n + 1].rule_tracker.tracked

\* no two tracks of the list are of the same rule and were started at the
\* same entry
OnePerStart(states, tracks) ==
    \A i, j \in 1..Len(tracks) :
        (/\ tracks[i].rule = tracks[j].rule
         /\ BornAt(states, tracks[i].id) = BornAt(states, tracks[j].id))
        => i = j

\* C25: at every point of the scan, after the rules loop and after the
\* untracking of every position, the live tracks hold at most one track per
\* rule and start position; so do the completed tracks; a track that is
\* completed or fails at a position is live after it no more, and no track
\* is completed twice.
C25_OneTrackPerStart ==
    (Applied /\ AllKnown(ipa_string))
    => LET states == ScanStates
       IN  /\ \A n \in 1..Len(ipa_string) :
                LET walked == WalkedAt(states, n)
                    live == LiveIds(states, n)
                IN  /\ OnePerStart(states, walked)
                    /\ OnePerStart(states, LiveAfter(states, n))
                    /\ \A k \in 1..Len(states[n + 1].successful_tracks) :
                         states[n + 1].successful_tracks[k].id \notin live
                    /\ \A i \in 1..Len(walked) :
                         track_step(rules, walked[i], ipa_string[n],
                                    get_features(ipa_string[n]), n - 1).pop
                         => walked[i].id \notin live
           /\ OnePerStart(states, successful_tracks)
           /\ \A j, k \in 1..Len(successful_tracks) :
                successful_tracks[j].id = successful_tracks[k].id => j = k
           /\ \A k \in 1..Len(successful_tracks) :
                StartOf(successful_tracks[k])
                    = BornAt(states, successful_tracks[k].id) - 1

\* of a k a k under the two lenition rules: at the second a each rule had
\* two tracks, one started at the first a and one at the second, and each
\* rule completed one track, the one started at the first a
C25_Witness ==
    /\ Applied
    /\ LenitionRules
    /\ ipa_string = <<"a", "k", "a", "k">>
    /\ LET states == ScanStates
       IN  /\ Len(WalkedAt(states, 3)) = 4
           /\ {BornAt(states, WalkedAt(states, 3)[i].id) : i \in 1..4} = {1, 3}
           /\ Len(LiveAfter(states, 3)) = 2
           /\ BornAt(states, successful_tracks[1].id) = 1
           /\ BornAt(states, successful_tracks[2].id) = 1
    /\ Len(successful_tracks) = 2
    /\ successful_tracks[1].rule # successful_tracks[2].rule
    /\ Returned(<<"a", "gamma", "a", "k">>)

\* C26: after each input position has been processed, every live track has
\* 0 <= count < length, its count being the number of positions it has been
\* live for; every completed track has its count at its length, was live for
\* as many positions as its environment has slots and is live no more, and
\* its index is a position of the input, that of its source sound.
C26_TrackBounds ==
    (Applied /\ AllKnown(ipa_string))
    => LET states == ScanStates
       IN  \A n \in 1..Len(ipa_string) :
             LET live == LiveAfter(states, n)
                 completed == states[n + 1].successful_tracks
             IN  /\ \A i \in 1..Len(live) :
                      /\ 0 <= live[i].count
                      /\ live[i].count < live[i].length
                      /\ live[i].length
                           = Len(Rules_get(rules, live[i].rule).environment)
                      /\ n - BornAt(states, live[i].id) + 1 = live[i].count
                 /\ \A k \in 1..Len(completed) :
                      /\ completed[k].count = completed[k].length
                      /\ completed[k].length
                           = Len(Rules_get(rules, completed[k].rule).environment)
                      /\ 0 <= completed[k].index
                      /\ completed[k].index < Len(ipa_string)
                      /\ completed[k].source = ipa_string[completed[k].index + 1]
                      /\ EndOf(completed[k]) - (BornAt(states, completed[k].id) - 1) + 1
                           = completed[k].length
                      /\ EndOf(completed[k]) < n
                      /\ completed[k].id \notin LiveIds(states, n)

\* of a k a k under the two lenition rules: after the second k each rule has
\* a live track with two of its three slots counted, and a completed track
\* with the first k as its source sound
C26_Witness ==
    /\ Applied
    /\ LenitionRules
    /\ ipa_string = <<"a", "k", "a", "k">>
    /\ Len(rule_tracker.tracks) = 2
    /\ \A i \in 1..2 :
         /\ rule_tracker.tracks[i].count = 2
         /\ rule_tracker.tracks[i].length = 3
         /\ BornAt(ScanStates, rule_tracker.tracks[i].id) = 3
    /\ Len(successful_tracks) = 2
    /\ \A k \in 1..2 :
         /\ successful_tracks[k].index = 1
         /\ successful_tracks[k].count = 3

\* the longest environment of the stored rules
MaxEnvironment ==
    LET lengths == {Len(rules[i].environment) : i \in 1..Len(rules)} \cup {0}
    IN  CHOOSE n \in lengths : \A m \in lengths : m <= n

\* the number of passes of the tracks loop over the first n positions: each
\* pass tests one slot of one track against the sound of the position
RECURSIVE SlotEvaluations(_, _)
SlotEvaluations(states, n) ==
    IF n = 0 THEN 0
    ELSE Len(WalkedAt(states, n)) + SlotEvaluations(states, n - 1)

CompletedFrom(rule_id, start) ==
    {k \in 1..Len(successful_tracks) :
        /\ successful_tracks[k].rule = rule_id
        /\ StartOf(successful_tracks[k]) = start - 1}

AddedInOtherOrder ==
    IF rules = LenitionStore(Fricativization, Voicing).rules
    THEN LenitionStore(Voicing, Fricativization).rules
    ELSE LenitionStore(Fricativization, Voicing).rules

\* C29: with the two lenition rules stored, a call of apply_rules ends as the
\* call on the same sequence ends when the two rules were added in the other
\* order: it fails if and only if that call fails, and otherwise it returns
\* the same sequence.
C29_LenitionOrder ==
    Applied
    => LET other == apply_rules(AddedInOtherOrder, ipa_string)
       IN  /\ pc \in {"returned", "raised"}
           /\ (pc = "raised") = other.raised
           /\ pc = "returned" => Returned(other.new_ipa_sequence)

\* a k a with voicing added first: k is voiced to g and then made the
\* fricative gamma; with voicing added last k is made x and then voiced to
\* gamma
C29_Witness ==
    /\ Applied
    /\ rules[1].source = {"voiceless"}
    /\ rules[2].source = {"stop"}
    /\ ipa_string = <<"a", "k", "a">>
    /\ Len(successful_tracks) = 2
    /\ Committed(1).sequence = <<"a", "g", "a">>
    /\ Returned(<<"a", "gamma", "a">>)
    /\ LET other == apply_rules(AddedInOtherOrder, ipa_string)
       IN  /\ AddedInOtherOrder[1].source = {"stop"}
           /\ Len(other.successful_tracks) = 2
           /\ ~other.raised
           /\ other.new_ipa_sequence = <<"a", "gamma", "a">>
====
